---- MODULE Spec2Model ----
(***************************************************************************)
(* Verification model of the resilient text-generation client of           *)
(* WFWReshapingTranslation (src/chinese_formatter-ollama.py and the        *)
(* translator scripts): the chunker split_text, the deduplicator           *)
(* remove_duplicates, the streaming supervisor _stream_response, the retry *)
(* orchestrators call_ollama / call_llamacpp and the batch loops           *)
(* process_transcript / translate_to_english.                              *)
(*                                                                         *)
(* Text is a sequence of Unicode code points.                              *)
(***************************************************************************)
EXTENDS Integers, Sequences, FiniteSets, TLC

\* ------------------------------------------------------------------------
\* Characters (Unicode code points) the source's patterns name.
\* ------------------------------------------------------------------------
NL == 10            \* '\n'
SP == 32            \* ' '
LBRACKET == 91      \* '['
RBRACKET == 93      \* ']'
COLON == 65306      \* '：'
PERIOD == 12290     \* '。'
DOT == 46           \* '.'
UNDERSCORE == 95    \* '_'
SLASH == 47         \* '/'
EXCL == 65281       \* '！'
QUESTION == 65311   \* '？'
SEMI == 65307       \* '；'
ELLIPSIS == 8230    \* '…'
COMMA == 65292      \* '，'
DUN == 12289        \* '、'
LLENT == 12304      \* '【'
RLENT == 12305      \* '】'
ChA == 97           \* 'a'
ChB == 98           \* 'b'
ChC == 99           \* 'c'
ChX == 120          \* 'x'

\* str.strip() / regex \s: the white space characters the model's texts use.
WhiteSpace == {9, NL, 13, SP, 12288}

\* ------------------------------------------------------------------------
\* Generic string helpers (Python str semantics)
\* ------------------------------------------------------------------------
MinOf(S) == CHOOSE x \in S : \A y \in S : x <= y
MaxOf(S) == CHOOSE x \in S : \A y \in S : x >= y

\* s[a:b] with 1-based inclusive bounds; empty when a > b
Slice(s, a, b) == IF a > b THEN <<>> ELSE SubSeq(s, a, b)

\* str.strip()
Strip(s) ==
    LET keep == {i \in 1..Len(s) : s[i] \notin WhiteSpace}
    IN IF keep = {} THEN <<>> ELSE SubSeq(s, MinOf(keep), MaxOf(keep))

\* the k-th smallest element of a finite set of integers
Nth(S, k) == CHOOSE x \in S : Cardinality({y \in S : y < x}) = k - 1

\* ''.join(list)
RECURSIVE Join(_)
Join(ss) == IF ss = <<>> THEN <<>> ELSE Head(ss) \o Join(Tail(ss))

\* sep.join(list)
RECURSIVE JoinSep(_, _)
JoinSep(ss, sep) ==
    IF ss = <<>> THEN <<>>
    ELSE IF Len(ss) = 1 THEN ss[1]
    ELSE ss[1] \o sep \o JoinSep(Tail(ss), sep)

\* text.split('\n'): n line feeds give n + 1 lines
SplitLines(text) ==
    LET nls == {i \in 1..Len(text) : text[i] = NL}
        starts == {1} \cup {i + 1 : i \in nls}
        endOf(s) == LET later == {i \in nls : i >= s}
                    IN IF later = {} THEN Len(text) ELSE MinOf(later) - 1
    IN [k \in 1..Cardinality(starts) |-> Slice(text, Nth(starts, k), endOf(Nth(starts, k)))]

\* the text without its white space
NonWS(s) == SelectSeq(s, LAMBDA c : c \notin WhiteSpace)

\* ------------------------------------------------------------------------
\* Chunker: ChineseFormatter.split_text
\* ------------------------------------------------------------------------
\* re.match(r'\[([^\]]+)\]：', line): length of the match, 0 when none
SpeakerMatchLen(line) ==
    LET rb == {j \in 1..Len(line) : line[j] = RBRACKET}
    IN IF Len(line) >= 4 /\ line[1] = LBRACKET /\ rb # {}
          /\ MinOf(rb) >= 3 /\ MinOf(rb) < Len(line) /\ line[MinOf(rb) + 1] = COLON
       THEN MinOf(rb) + 1 ELSE 0

\* f"[{current_speaker}]：{content}" for the turn that starts at tag line t and
\* runs to the line before the next tag line; <<>> when its content strips to ''
SpeakerBlockAt(lines, t) ==
    LET tags == {k \in 1..Len(lines) : SpeakerMatchLen(lines[k]) > 0}
        later == {k \in tags : k > t}
        last == IF later = {} THEN Len(lines) ELSE MinOf(later) - 1
        m == SpeakerMatchLen(lines[t])
        first == Slice(lines[t], m + 1, Len(lines[t]))
        content == Strip(first \o Join(Slice(lines, t + 1, last)))
    IN IF content = <<>> THEN <<>> ELSE SubSeq(lines[t], 1, m) \o content

\* speaker_blocks after the scan of lines 195-214
SpeakerBlocks(text) ==
    LET lines == SplitLines(text)
        tags == {k \in 1..Len(lines) : SpeakerMatchLen(lines[k]) > 0}
        all == [k \in 1..Cardinality(tags) |-> SpeakerBlockAt(lines, Nth(tags, k))]
    IN SelectSeq(all, LAMBDA b : b # <<>>)

\* re.split('([。！？；…\n]+)', text) re-paired as in lines 222-226: every
\* sentence is a run of text followed by its run of terminators
SentenceEndings == {PERIOD, EXCL, QUESTION, SEMI, ELLIPSIS, NL}

SplitSentences(text) ==
    LET n == Len(text)
        ends == {i \in 1..n : text[i] \in SentenceEndings
                              /\ (i = n \/ text[i + 1] \notin SentenceEndings)}
        starts == {1} \cup {i + 1 : i \in ends}
        endOf(s) == LET later == {i \in ends : i >= s}
                    IN IF later = {} THEN n ELSE MinOf(later)
    IN [k \in 1..Cardinality(starts) |-> Slice(text, Nth(starts, k), endOf(Nth(starts, k)))]

\* the packing loop of lines 219-236: units joined with nothing between them
RECURSIVE PackSentences(_, _, _, _)
PackSentences(units, k, cur, max_chars) ==
    IF k > Len(units)
    THEN IF Strip(cur) # <<>> THEN << Strip(cur) >> ELSE <<>>
    ELSE IF Len(cur) + Len(units[k]) <= max_chars
         THEN PackSentences(units, k + 1, cur \o units[k], max_chars)
         ELSE (IF Strip(cur) # <<>> THEN << Strip(cur) >> ELSE <<>>)
              \o PackSentences(units, k + 1, units[k], max_chars)

\* the separator a block is appended with (line 245)
BlockSeparator(cur) == IF cur # <<>> THEN <<NL, NL>> ELSE <<>>

RECURSIVE PackBlocksStrict(_, _, _, _)
PackBlocksStrict(blocks, k, cur, max_chars) ==
    IF k > Len(blocks)
    THEN IF Strip(cur) # <<>> THEN << Strip(cur) >> ELSE <<>>
    ELSE IF Len(cur) + Len(blocks[k]) < max_chars
         THEN PackBlocksStrict(blocks, k + 1, cur \o BlockSeparator(cur) \o blocks[k], max_chars)
         ELSE (IF Strip(cur) # <<>> THEN << Strip(cur) >> ELSE <<>>)
              \o PackBlocksStrict(blocks, k + 1, blocks[k], max_chars)

\* the packing loop of lines 240-252
RECURSIVE PackBlocks(_, _, _, _)
PackBlocks(blocks, k, cur, max_chars) ==
    IF k > Len(blocks)
    THEN IF Strip(cur) # <<>> THEN << Strip(cur) >> ELSE <<>>
    ELSE IF Len(cur) + Len(blocks[k]) <= max_chars
         THEN PackBlocks(blocks, k + 1, cur \o BlockSeparator(cur) \o blocks[k], max_chars)
         ELSE (IF Strip(cur) # <<>> THEN << Strip(cur) >> ELSE <<>>)
              \o PackBlocks(blocks, k + 1, blocks[k], max_chars)

split_text(text, max_chars) ==
    LET blocks == SpeakerBlocks(text)
        chunks == IF blocks = <<>>
                  THEN PackSentences(SplitSentences(text), 1, <<>>, max_chars)
                  ELSE PackBlocks(blocks, 1, <<>>, max_chars)
    IN IF chunks # <<>> THEN chunks ELSE << text >>

\* ------------------------------------------------------------------------
\* Deduplicator: ChineseFormatter.remove_duplicates
\* ------------------------------------------------------------------------
SentenceEnds == {PERIOD, EXCL, QUESTION, SEMI}

\* re.sub(r'[。！？；，、\s]', '', s)
Clean(s) == SelectSeq(s, LAMBDA c : c \notin (SentenceEnds \cup {COMMA, DUN} \cup WhiteSpace))

\* sentence_list of lines 268-286: the text cut after every terminator, each
\* piece stripped, empty pieces left out, the unterminated rest last
SentenceList(text) ==
    LET n == Len(text)
        ends == {i \in 1..n : text[i] \in SentenceEnds}
        starts == {1} \cup {i + 1 : i \in ends}
        endOf(s) == LET later == {i \in ends : i >= s}
                    IN IF later = {} THEN n ELSE MinOf(later)
        all == [k \in 1..Cardinality(starts) |->
                    Strip(Slice(text, Nth(starts, k), endOf(Nth(starts, k))))]
    IN SelectSeq(all, LAMBDA u : u # <<>>)

\* difflib.SequenceMatcher.find_longest_match on a[alo..ahi], b[blo..bhi]
\* (no junk: the sequences are shorter than 200 elements): the longest common
\* block, the earliest in a and then the earliest in b among the longest
RunLen(a, i, ahi, b, j, bhi) ==
    LET lim == IF ahi - i < bhi - j THEN ahi - i + 1 ELSE bhi - j + 1
    IN IF a[i] # b[j] THEN 0
       ELSE MinOf({k \in 1..lim : k = lim \/ a[i + k] # b[j + k]})

LongestMatch(a, alo, ahi, b, blo, bhi) ==
    LET best == MaxOf({0} \cup {RunLen(a, i, ahi, b, j, bhi) : i \in alo..ahi, j \in blo..bhi})
        bi == MinOf({i \in alo..ahi : \E j \in blo..bhi : RunLen(a, i, ahi, b, j, bhi) = best})
        bj == MinOf({j \in blo..bhi : RunLen(a, bi, ahi, b, j, bhi) = best})
    IN IF best = 0 THEN <<alo, blo, 0>> ELSE <<bi, bj, best>>

\* the number of matched elements of get_matching_blocks
RECURSIVE Matches(_, _, _, _, _, _)
Matches(a, alo, ahi, b, blo, bhi) ==
    IF alo > ahi \/ blo > bhi THEN 0
    ELSE LET m == LongestMatch(a, alo, ahi, b, blo, bhi)
         IN IF m[3] = 0 THEN 0
            ELSE m[3] + Matches(a, alo, m[1] - 1, b, blo, m[2] - 1)
                      + Matches(a, m[1] + m[3], ahi, b, m[2] + m[3], bhi)

\* SequenceMatcher(None, a, b).ratio() >= similarity_threshold (0.80), in
\* integers: 2 * M / T >= 80 / 100; ratio() is 1.0 when both are empty
SimilarityPercent == 80

Similar(a, b) ==
    IF Len(a) + Len(b) = 0 THEN TRUE
    ELSE 200 * Matches(a, 1, Len(a), b, 1, Len(b)) >= SimilarityPercent * (Len(a) + Len(b))

\* the length comparison that decides which of two colliding units is kept
NewWins(new, kept) == Len(new) > Len(kept)

ReplaceKeptInPlace(kept, q, new) ==
    Slice(kept, 1, q - 1) \o <<new>> \o Slice(kept, q + 1, Len(kept))

\* list.remove(kept) followed by list.append(new), kept being at index q
ReplaceKept(kept, q, new) ==
    Append(Slice(kept, 1, q - 1) \o Slice(kept, q + 1, Len(kept)), new)

\* lines 292-316: one unit against the kept units, in order
DedupSentenceStep(unique, sentence) ==
    LET hits == {q \in 1..Len(unique) :
                    /\ Clean(sentence) # <<>> /\ Clean(unique[q]) # <<>>
                    /\ Similar(Clean(sentence), Clean(unique[q]))}
    IN IF hits = {} THEN Append(unique, sentence)
       ELSE IF NewWins(sentence, unique[MinOf(hits)])
            THEN ReplaceKept(unique, MinOf(hits), sentence)
            ELSE unique

RECURSIVE DedupSentences(_, _, _)
DedupSentences(list, k, unique) ==
    IF k > Len(list) THEN unique
    ELSE DedupSentences(list, k + 1, DedupSentenceStep(unique, list[k]))

\* dedup_text.split('\n\n'): cut at every non-overlapping "\n\n", left to right
RECURSIVE SplitParagraphs(_, _, _)
SplitParagraphs(text, from, i) ==
    IF i >= Len(text) THEN << Slice(text, from, Len(text)) >>
    ELSE IF text[i] = NL /\ text[i + 1] = NL
         THEN << Slice(text, from, i - 1) >> \o SplitParagraphs(text, i + 2, i + 2)
         ELSE SplitParagraphs(text, from, i + 1)

\* lines 331-357: one paragraph against the kept paragraphs, in order
DedupParagraphStep(unique, para) ==
    LET m == SpeakerMatchLen(para)
        content(p) == Strip(Slice(p, SpeakerMatchLen(p) + 1, Len(p)))
        hits == {q \in 1..Len(unique) :
                    /\ m > 0 /\ SpeakerMatchLen(unique[q]) > 0
                    /\ SubSeq(para, 1, m) = SubSeq(unique[q], 1, SpeakerMatchLen(unique[q]))
                    /\ content(para) # <<>> /\ content(unique[q]) # <<>>
                    /\ Similar(Clean(content(para)), Clean(content(unique[q])))}
    IN IF hits = {} THEN Append(unique, para)
       ELSE IF NewWins(para, unique[MinOf(hits)])
            THEN ReplaceKept(unique, MinOf(hits), para)
            ELSE unique

RECURSIVE DedupParagraphs(_, _, _)
DedupParagraphs(paras, k, unique) ==
    IF k > Len(paras) THEN unique
    ELSE IF Strip(paras[k]) = <<>> THEN DedupParagraphs(paras, k + 1, unique)
    ELSE DedupParagraphs(paras, k + 1, DedupParagraphStep(unique, Strip(paras[k])))

\* '[' in dedup_text and ']：' in dedup_text (line 322)
HasSpeakerMarks(text) ==
    /\ \E i \in 1..Len(text) : text[i] = LBRACKET
    /\ \E i \in 1..(Len(text) - 1) : text[i] = RBRACKET /\ text[i + 1] = COLON

remove_duplicates_lines(text) ==
    LET dedup_text == JoinSep(DedupSentences(SentenceList(text), 1, <<>>), <<NL>>)
    IN IF HasSpeakerMarks(dedup_text)
       THEN JoinSep(DedupParagraphs(SplitParagraphs(dedup_text, 1, 1), 1, <<>>), <<NL, NL>>)
       ELSE dedup_text

remove_duplicates(text) ==
    LET dedup_text == Join(DedupSentences(SentenceList(text), 1, <<>>))
    IN IF HasSpeakerMarks(dedup_text)
       THEN JoinSep(DedupParagraphs(SplitParagraphs(dedup_text, 1, 1), 1, <<>>), <<NL, NL>>)
       ELSE dedup_text

\* ------------------------------------------------------------------------
\* format_speaker_paragraphs: a line feed before every speaker mark but one
\* at the start of the text
\* ------------------------------------------------------------------------
\* end of the match of the pattern at k, 0 if it does not match there
MarkEnd(text, k) ==
    LET closes == {j \in (k + 1)..Len(text) : text[j] = RLENT}
    IN IF text[k] # LLENT \/ closes = {} THEN 0
       ELSE IF MinOf(closes) >= k + 2 THEN MinOf(closes) ELSE 0

\* re.sub over text[i..]: matches are taken left to right, without overlap
RECURSIVE SubMarks(_, _)
SubMarks(text, i) ==
    LET starts == {k \in i..Len(text) : MarkEnd(text, k) > 0}
    IN IF starts = {} THEN Slice(text, i, Len(text))
       ELSE LET k == MinOf(starts)
                j == MarkEnd(text, k)
            IN Slice(text, i, k - 1) \o (IF k > 1 THEN <<NL>> ELSE <<>>)
                   \o Slice(text, k, j) \o SubMarks(text, j + 1)

\* str.lstrip('\n')
LStripNL(s) ==
    LET keep == {i \in 1..Len(s) : s[i] # NL}
    IN IF keep = {} THEN <<>> ELSE Slice(s, MinOf(keep), Len(s))

format_speaker_paragraphs(text) == LStripNL(SubMarks(text, 1))

\* ------------------------------------------------------------------------
\* Streaming supervisor: ChineseFormatter._stream_response, detect_repetition
\* ------------------------------------------------------------------------
check_interval == 30                \* seconds without output that count as one idle strike
max_no_output_intervals == 3        \* idle strikes that stop the stream
repetition_check_interval == 500    \* characters generated between two repetition checks
window_size == 100                  \* detect_repetition's default window
search_span == 500                  \* detect_repetition looks at the last 500 characters
request_timeout_long == 2 * 180     \* a timeout of twice the length
request_timeout == 180              \* timeout= of requests.post
llamacpp_timeout == 300             \* timeout= of call_llamacpp's post

\* tail in search_range (line 417): the last w characters occur at some place
\* of text[lo..hi]
OccursInText(text, w, lo, hi) ==
    LET n == Len(text)
    IN \E p \in 1..(n - w - w + 1) : \A t \in 0..(w - 1) : text[p + t] = text[n - w + 1 + t]

OccursIn(text, w, lo, hi) ==
    LET n == Len(text)
    IN \E p \in lo..(hi - w + 1) : \A t \in 0..(w - 1) : text[p + t] = text[n - w + 1 + t]

detect_repetition(text, w) ==
    LET n == Len(text)
    IN IF n < w * 2 THEN FALSE
       ELSE IF n > search_span
            THEN OccursIn(text, w, n - search_span + 1, n - w)
            ELSE OccursIn(text, w, 1, n - w)

\* the accumulated text handed back as it is, without strip()
ReturnedTextRaw(term, text) ==
    IF term \in {"TimedOut", "TransportError"} THEN <<>> ELSE text

\* what _stream_response hands back from terminal state term: the stripped
\* text after the loop (lines 558-567), '' from the two handlers (569-574)
ReturnedText(term, text) ==
    IF term \in {"TimedOut", "TransportError"} THEN <<>> ELSE Strip(text)

\* one decoded line of the stream (lines 519-553). has: the object carries
\* 'response'; delta: its text; done: its 'done' flag; now: time.time().
\* The two time.time() calls of one line read the same instant.
LineTextReplace(text, has, delta) == IF has THEN delta ELSE text
LineText(text, has, delta) == IF has THEN text \o delta ELSE text
LineOutputTime(lot, has, now) == IF has THEN now ELSE lot
LineStrikesKept(cnt, has) == cnt
LineStrikes(cnt, has) == IF has THEN 0 ELSE cnt
IdleHit(lot, has, now) == now - LineOutputTime(lot, has, now) > check_interval
RepetitionDueAlways(text, lcl) == Len(text) > lcl
RepetitionDueLate(text, lcl) == Len(text) - lcl >= 3 * repetition_check_interval
RepetitionDue(text, lcl) == Len(text) - lcl >= repetition_check_interval

LineOutcomeDoneLast(text, lot, cnt, lcl, has, delta, done, now) ==
    LET text1 == LineText(text, has, delta)
        lot1 == LineOutputTime(lot, has, now)
        cnt1 == LineStrikes(cnt, has)
        idle == IdleHit(lot, has, now)
        cnt2 == IF idle THEN cnt1 + 1 ELSE cnt1
        stalled == idle /\ cnt2 >= max_no_output_intervals
        due == RepetitionDue(text1, lcl)
    IN IF stalled
       THEN [st |-> "Stalled", text |-> text1, lot |-> lot1, cnt |-> cnt2, lcl |-> lcl]
       ELSE IF due /\ detect_repetition(text1, window_size)
       THEN [st |-> "RepetitionStopped", text |-> text1,
             lot |-> IF idle THEN now ELSE lot1, cnt |-> cnt2, lcl |-> lcl]
       ELSE [st |-> IF done THEN "Completed" ELSE "Streaming", text |-> text1,
             lot |-> IF idle THEN now ELSE lot1, cnt |-> cnt2,
             lcl |-> IF due THEN Len(text1) ELSE lcl]

LineOutcomeDoneFirst(text, lot, cnt, lcl, has, delta, done, now) ==
    IF done
    THEN [st |-> "Completed", text |-> text, lot |-> lot, cnt |-> cnt, lcl |-> lcl]
    ELSE LineOutcomeDoneLast(text, lot, cnt, lcl, has, delta, done, now)

LineOutcome(text, lot, cnt, lcl, has, delta, done, now) ==
    LET text1 == LineText(text, has, delta)
        lot1 == LineOutputTime(lot, has, now)
        cnt1 == LineStrikes(cnt, has)
        idle == IdleHit(lot, has, now)
        cnt2 == IF idle THEN cnt1 + 1 ELSE cnt1
        stalled == idle /\ cnt2 >= max_no_output_intervals
        due == RepetitionDue(text1, lcl)
    IN IF done
       THEN [st |-> "Completed", text |-> text1, lot |-> lot1, cnt |-> cnt1, lcl |-> lcl]
       ELSE IF stalled
       THEN [st |-> "Stalled", text |-> text1, lot |-> lot1, cnt |-> cnt2, lcl |-> lcl]
       ELSE IF due /\ detect_repetition(text1, window_size)
       THEN [st |-> "RepetitionStopped", text |-> text1,
             lot |-> IF idle THEN now ELSE lot1, cnt |-> cnt2, lcl |-> lcl]
       ELSE [st |-> "Streaming", text |-> text1,
             lot |-> IF idle THEN now ELSE lot1, cnt |-> cnt2,
             lcl |-> IF due THEN Len(text1) ELSE lcl]

Terminal == {"Completed", "Stalled", "RepetitionStopped", "TimedOut", "TransportError"}

\* ------------------------------------------------------------------------
\* State
\* ------------------------------------------------------------------------
VARIABLES
    \* chunker harness
    ckPhase,    \* "input" while the transcript is built, "done" after split_text; "off" when unused
    ckText,     \* the transcript handed to split_text
    ckMax,      \* max_chars
    ckOut,      \* the list split_text returned
    ckN,        \* number of pieces the transcript was built from
    \* deduplicator harness
    ddPhase,    \* "input", "once" after remove_duplicates, "twice" after a second pass; "off" when unused
    ddText,     \* the text handed to remove_duplicates
    ddOut,      \* remove_duplicates(ddText)
    ddOut2,     \* remove_duplicates(ddOut)
    ddN,        \* number of pieces the text was built from
    ddKind,     \* what the text is built from: "sentences" or "paragraphs"; "none" when unused
    \* file-name harness
    fnPhase,    \* "input" while the base name is built, "done" after the call; "off" when unused
    fnBase,     \* base_name
    fnStamp,    \* what datetime.now().strftime("%Y%m%d_%H%M%S") gives at the call
    fnOut,      \* the name _generate_timestamped_filename returned
    fnN,        \* number of pieces the base name was built from
    \* one HTTP request (the locals of _stream_response, or the plain post)
    st,                 \* "Idle", "Connecting", "Streaming" or a terminal state
    response_text,      \* the accumulated text (the body, for a plain post)
    last_output_time,
    no_output_count,
    last_check_length,
    sret,               \* the value the request hands back, set on the terminal transition
    clock,              \* wall-clock time since the request was issued
    waitFrom,           \* clock at which the current wait for the endpoint began
    lastDeltaAt,        \* clock of the last delta (of the stream's start before the first)
    lastDeltaLen,       \* length of the last delta
    repSince,           \* length of the text since which its tail has been repeating, -1 if it is not
    streamed,           \* the request reached Streaming
    nLines,             \* lines taken by this request
    gotDelta,           \* the request has received a line that carries 'response'
    connOpen,           \* the response of the request holds its connection
    doneDelta,          \* the text carried by the line that said done
    lastEvent,          \* what iter_lines yielded last: "none", "line", "done" (a line with
                        \* done set), "skip" (blank or not JSON), "bad" (not UTF-8, not an object)
    feed,               \* the family the endpoint's streams are drawn from
    \* one generate call (call_ollama / call_llamacpp)
    client,             \* "stream" (call_ollama, use_stream=True), "plain" (use_stream=False), "llamacpp"
    max_retries,
    attempt,
    cpc,                \* "idle", "waiting" for the request, "returned"
    cret,               \* the value returned to the caller
    outcomes,           \* how each attempt of the call ended: "text", "empty", "timeout", "error"
    \* the batch loops (process_transcript / translate_to_english)
    bpc,                \* "off", "start", "call", "regen", "join", "done", "fault"
    flow,               \* "process" or "translate"
    transcript,
    chunks,
    idx,                \* i of the loop, 1-based
    processed_chunks,   \* processed_chunks / translated_chunks
    total_output_length,
    results,            \* the result the generation of each segment ended with
    calls,              \* generate calls issued since the last entry was placed
    first_result,       \* the first result of the segment being regenerated
    trail,              \* per placed segment: its first result and the calls it took
    document            \* the text the batch returns

chunkVars == <<ckPhase, ckText, ckMax, ckOut, ckN>>
nameVars == <<fnPhase, fnBase, fnStamp, fnOut, fnN>>
dedupVars == <<ddPhase, ddText, ddOut, ddOut2, ddN, ddKind>>
streamVars == <<st, response_text, last_output_time, no_output_count, last_check_length,
                sret, clock, waitFrom, lastDeltaAt, lastDeltaLen, repSince, streamed,
                nLines, lastEvent, gotDelta, connOpen,
                doneDelta>>
callVars == <<client, max_retries, attempt, cpc, cret, outcomes, feed>>
loopVars == <<bpc, flow, transcript, chunks, idx, processed_chunks, total_output_length,
              results, trail, first_result, document>>
batchVars == <<loopVars, calls>>
runVars == <<streamVars, callVars, batchVars>>
vars == <<chunkVars, dedupVars, nameVars, streamVars, callVars, batchVars>>

\* ------------------------------------------------------------------------
\* Chunker harness: transcripts are built from pieces, then split
\* ------------------------------------------------------------------------
MaxPieces == 5

TagA == <<LBRACKET, ChA, RBRACKET, COLON>>
TagB == <<LBRACKET, ChB, RBRACKET, COLON>>
TurnA == TagA \o <<ChX, NL>>
ChunkPieces == {TagA, TagB, TurnA, <<ChX>>, <<PERIOD>>, <<NL>>, <<SP>>}

\* a speaker block of n characters, tag included
Block(c, n) == <<LBRACKET, c, RBRACKET, COLON>> \o [k \in 1..(n - 4) |-> ChX]
\* the lines long transcripts are built from
BlockPieces == {Block(ChA, 500) \o <<NL>>, Block(ChB, 400) \o <<NL>>, Block(ChA, 400) \o <<NL>>}

ChunkBudgets == {3, 10, 800}
PiecesFor(max) == IF max = 800 THEN BlockPieces ELSE ChunkPieces

ChunkInit ==
    /\ ckPhase = "input" /\ ckText = <<>> /\ ckOut = <<>> /\ ckN = 0
    /\ ckMax \in ChunkBudgets

ChunkIdle ==
    /\ ckPhase = "off" /\ ckText = <<>> /\ ckOut = <<>> /\ ckN = 0 /\ ckMax = 0

ChunkAppend(p) ==
    /\ ckPhase = "input"
    /\ p \in PiecesFor(ckMax)
    /\ ckN < MaxPieces
    /\ ckText' = ckText \o p
    /\ ckN' = ckN + 1
    /\ UNCHANGED <<ckPhase, ckMax, ckOut>>
    /\ UNCHANGED <<nameVars, dedupVars, runVars>>

ChunkSplit ==
    /\ ckPhase = "input"
    /\ ckOut' = split_text(ckText, ckMax)
    /\ ckPhase' = "done"
    /\ UNCHANGED <<ckText, ckMax, ckN>>
    /\ UNCHANGED <<nameVars, dedupVars, runVars>>

ChunkNext ==
    \/ \E p \in ChunkPieces \cup BlockPieces : ChunkAppend(p)
    \/ ChunkSplit


\* ------------------------------------------------------------------------
\* Deduplicator harness: texts are built from pieces, then deduplicated twice
\* ------------------------------------------------------------------------
MaxDedupPieces == 4

UnitCC == <<ChC, ChC, PERIOD>>
UnitACBC == <<ChA, ChC, ChB, ChC, PERIOD>>
UnitACC == <<ChA, ChC, ChC, PERIOD>>
UnitACCq == <<ChA, ChC, ChC, QUESTION>>
DedupPieces == {UnitCC, UnitACBC, UnitACC, UnitACCq, TagA, TagB, <<NL, NL>>, <<COMMA>>}

\* a paragraph that has no sentence terminator, with the blank line after it
Para(tag, content) == tag \o content \o <<NL, NL>>
ParagraphPieces == {Para(TagA, <<ChC, ChC>>), Para(TagA, <<ChA, ChC, ChB, ChC>>),
                    Para(TagA, <<ChA, ChC, ChC>>), Para(TagB, <<ChA, ChC, ChC>>),
                    Para(<<>>, <<ChA, ChC, ChC>>)}

DedupPiecesOf(kind) == IF kind = "paragraphs" THEN ParagraphPieces ELSE DedupPieces

DedupInit ==
    /\ ddPhase = "input" /\ ddText = <<>> /\ ddOut = <<>> /\ ddOut2 = <<>> /\ ddN = 0
    /\ ddKind \in {"sentences", "paragraphs"}

DedupIdle ==
    /\ ddPhase = "off" /\ ddText = <<>> /\ ddOut = <<>> /\ ddOut2 = <<>> /\ ddN = 0
    /\ ddKind = "none"

DedupAppend(p) ==
    /\ ddPhase = "input"
    /\ ddN < MaxDedupPieces
    /\ p \in DedupPiecesOf(ddKind)
    /\ ddText' = ddText \o p
    /\ ddN' = ddN + 1
    /\ UNCHANGED <<ddPhase, ddOut, ddOut2, ddKind>>
    /\ UNCHANGED <<nameVars, chunkVars, runVars>>

DedupRun ==
    /\ ddPhase = "input"
    /\ ddOut' = remove_duplicates(ddText)
    /\ ddPhase' = "once"
    /\ UNCHANGED <<ddText, ddOut2, ddN, ddKind>>
    /\ UNCHANGED <<nameVars, chunkVars, runVars>>

DedupAgain ==
    /\ ddPhase = "once"
    /\ ddOut2' = remove_duplicates(ddOut)
    /\ ddPhase' = "twice"
    /\ UNCHANGED <<ddText, ddOut, ddN, ddKind>>
    /\ UNCHANGED <<nameVars, chunkVars, runVars>>

DedupNext ==
    \/ \E p \in DedupPieces \cup ParagraphPieces : DedupAppend(p)
    \/ DedupRun
    \/ DedupAgain

\* ------------------------------------------------------------------------
\* _generate_timestamped_filename (lines 690-710) and its harness
\* ------------------------------------------------------------------------
FirstDot(s) == MinOf({i \in 1..Len(s) : s[i] = DOT})

\* where base_name.rsplit('.', 1) splits: at the last '.'
SplitPoint(s) == MaxOf({i \in 1..Len(s) : s[i] = DOT})

generate_timestamped_filename(base_name, timestamp) ==
    IF \E i \in 1..Len(base_name) : base_name[i] = DOT
    THEN LET name == Slice(base_name, 1, SplitPoint(base_name) - 1)
             ext == Slice(base_name, SplitPoint(base_name) + 1, Len(base_name))
         IN name \o <<UNDERSCORE>> \o timestamp \o <<DOT>> \o ext
    ELSE base_name \o <<UNDERSCORE>> \o timestamp

MaxNamePieces == 4

\* "txt"
ExtTxt == <<116, 120, 116>>
NamePieces == {<<ChX>>, <<DOT>>, ExtTxt, <<SLASH>>, <<UNDERSCORE>>}
\* "20251225_143020" (the docstring's example) and "20260101_000000"
Stamps == {<<50, 48, 50, 53, 49, 50, 50, 53, UNDERSCORE, 49, 52, 51, 48, 50, 48>>,
           <<50, 48, 50, 54, 48, 49, 48, 49, UNDERSCORE, 48, 48, 48, 48, 48, 48>>}

NameInit ==
    /\ fnPhase = "input" /\ fnBase = <<>> /\ fnStamp = <<>> /\ fnOut = <<>> /\ fnN = 0

NameIdle ==
    /\ fnPhase = "off" /\ fnBase = <<>> /\ fnStamp = <<>> /\ fnOut = <<>> /\ fnN = 0

NameAppend(p) ==
    /\ fnPhase = "input"
    /\ fnN < MaxNamePieces
    /\ fnBase' = fnBase \o p
    /\ fnN' = fnN + 1
    /\ UNCHANGED <<fnPhase, fnStamp, fnOut>>
    /\ UNCHANGED <<chunkVars, dedupVars, runVars>>

NameCall(now) ==
    /\ fnPhase = "input"
    /\ fnStamp' = now
    /\ fnOut' = generate_timestamped_filename(fnBase, now)
    /\ fnPhase' = "done"
    /\ UNCHANGED <<fnBase, fnN>>
    /\ UNCHANGED <<chunkVars, dedupVars, runVars>>

NameNext ==
    \/ \E p \in NamePieces : NameAppend(p)
    \/ \E now \in Stamps : NameCall(now)

\* ------------------------------------------------------------------------
\* The endpoint: what a request can receive.  A stream is drawn from one of
\* three families (feed): "bulk" streams carry long deltas, fresh or looping;
\* "timing" streams carry short deltas, lines without text, blank and
\* undecodable lines, with time passing between them; "batch" streams are the
\* ones the batch loops are driven with.
\* ------------------------------------------------------------------------
MaxBulkLines == 3       \* lines one request of a bulk stream takes
MaxTimingLines == 4     \* lines one request of a timing stream takes
MaxBatchLines == 1      \* lines one request of a batch stream takes
MaxClock == 300         \* time passes while the request's clock is below this
MaxRetriesArg == 2      \* max_retries ranges over 0..MaxRetriesArg

TickLen == 100          \* time passes in steps of this length
LoopPeriod == 100       \* period of a looping generation
FreshBase == 19968      \* first code point of freshly generated text

\* a delta of two similar sentences, the second under a speaker mark
Marked == <<ChC, ChC, PERIOD, LLENT, ChA, RLENT, ChC, ChC, PERIOD>>

\* a delta that says one sentence three times
Thrice == <<ChC, ChC, PERIOD, ChC, ChC, PERIOD, ChC, ChC, PERIOD>>

MaxLines(f) == IF f = "bulk" THEN MaxBulkLines
               ELSE IF f = "timing" THEN MaxTimingLines ELSE MaxBatchLines

\* n characters never generated before (position-numbered ideographs)
Fresh(text, n) == [k \in 1..n |-> FreshBase + Len(text) + k]
\* n characters that continue the text with period LoopPeriod (a generation loop)
Loop(text, n) == [k \in 1..n |-> text[Len(text) - LoopPeriod + ((k - 1) % LoopPeriod) + 1]]

\* n fresh characters with a full stop at every every-th place
Dotted(text, n, every) ==
    [k \in 1..n |-> IF k % every = 0 THEN PERIOD ELSE FreshBase + Len(text) + k]

\* the first n characters of the text once more (the generation quotes its
\* beginning)
Recall(text, n) == Slice(text, 1, n)

Deltas(f, text) ==
    IF f = "bulk"
    THEN {Fresh(text, 500), <<SP>>}
         \cup (IF Len(text) >= LoopPeriod THEN {Loop(text, 100), Loop(text, 600)} ELSE {})
         \cup (IF Len(text) >= search_span THEN {Recall(text, 100)} ELSE {})
    ELSE IF f = "timing"
    THEN {<<ChX>>, <<SP>>, <<>>}
    ELSE {Fresh(text, 500), Fresh(text, 100), Marked, Thrice,
          Dotted(text, 60, 8), Dotted(text, 60, 16)}

Bodies == {<<>>, <<SP>>, <<ChX>>, <<SP, ChX, NL>>}

\* ------------------------------------------------------------------------
\* One request
\* ------------------------------------------------------------------------
RequestIdle ==
    /\ st = "Idle" /\ response_text = <<>> /\ last_output_time = 0
    /\ no_output_count = 0 /\ last_check_length = 0 /\ sret = <<>>
    /\ clock = 0 /\ waitFrom = 0 /\ lastDeltaAt = 0 /\ lastDeltaLen = 0
    /\ repSince = -1 /\ streamed = FALSE /\ nLines = 0 /\ lastEvent = "none"
    /\ gotDelta = FALSE /\ connOpen = FALSE /\ doneDelta = <<>>

\* requests.post is issued: the locals of lines 495-503 are set
IssueRequest ==
    /\ st' = "Connecting" /\ response_text' = <<>> /\ last_output_time' = 0
    /\ no_output_count' = 0 /\ last_check_length' = 0 /\ sret' = <<>>
    /\ clock' = 0 /\ waitFrom' = 0 /\ lastDeltaAt' = 0 /\ lastDeltaLen' = 0
    /\ repSince' = -1 /\ streamed' = FALSE /\ nLines' = 0 /\ lastEvent' = "none"
    /\ gotDelta' = FALSE /\ connOpen' = FALSE /\ doneDelta' = <<>>

\* timeout= of the post client c issues
TimeoutOf(c) == IF c = "llamacpp" THEN llamacpp_timeout ELSE request_timeout

\* time passes while the request waits for the endpoint; the wait cannot
\* outlast timeout=
Tick ==
    /\ st \in {"Connecting", "Streaming"}
    /\ feed = "timing"
    /\ clock < MaxClock
    /\ clock + TickLen - waitFrom < TimeoutOf(client)
    /\ clock' = clock + TickLen
    /\ UNCHANGED <<st, response_text, last_output_time, no_output_count, last_check_length,
                   sret, waitFrom, lastDeltaAt, lastDeltaLen, repSince, streamed, nLines,
                   lastEvent, gotDelta, connOpen, doneDelta>>
    /\ UNCHANGED <<nameVars, chunkVars, dedupVars, callVars, batchVars>>

\* the connection of a response nothing reads any more. The library gives
\* it up when the body was read to its end or the transport failed
\* (released); no statement of _stream_response closes a response it
\* abandons by break, or by an exception of its own (there is no close() and
\* no with block in lines 505-574): it holds the connection until the
\* interpreter finalises the dropped object
Released == {FALSE}
Abandoned == BOOLEAN

\* the request ends in terminal state term at time now without taking a line
EndRequest(term, now, left) ==
    /\ st' = term
    /\ connOpen' \in left
    /\ sret' = ReturnedText(term, response_text)
    /\ clock' = now
    /\ UNCHANGED <<response_text, last_output_time, no_output_count, last_check_length,
                   waitFrom, lastDeltaAt, lastDeltaLen, repSince, streamed, nLines,
                   lastEvent, gotDelta, doneDelta>>

\* stream=True: the response headers arrive, raise_for_status passes
ConnectOk ==
    /\ st = "Connecting" /\ client = "stream"
    /\ st' = "Streaming"
    /\ waitFrom' = clock
    /\ lastDeltaAt' = clock
    /\ streamed' = TRUE
    /\ connOpen' = TRUE
    /\ UNCHANGED <<response_text, last_output_time, no_output_count, last_check_length,
                   sret, clock, lastDeltaLen, repSince, nLines, lastEvent, gotDelta,
                   doneDelta>>
    /\ UNCHANGED <<nameVars, chunkVars, dedupVars, callVars, batchVars>>

\* no answer within timeout=: requests.exceptions.Timeout (handler of line 569,
\* of line 466 for a plain post)
ConnectTimeout ==
    /\ st = "Connecting"
    /\ EndRequest("TimedOut", waitFrom + TimeoutOf(client), Released)
    /\ UNCHANGED <<nameVars, chunkVars, dedupVars, callVars, batchVars>>

\* connection refused, or raise_for_status on a non-2xx status
ConnectError ==
    /\ st = "Connecting"
    /\ EndRequest("TransportError", clock, IF client = "stream" THEN Abandoned ELSE Released)
    /\ UNCHANGED <<nameVars, chunkVars, dedupVars, callVars, batchVars>>

\* a plain post answers with its whole body
PlainResponse(body) ==
    /\ st = "Connecting" /\ client # "stream"
    /\ st' = "Completed"
    /\ response_text' = body
    /\ sret' = ReturnedText("Completed", body)
    /\ UNCHANGED <<last_output_time, no_output_count, last_check_length, clock, waitFrom,
                   lastDeltaAt, lastDeltaLen, repSince, streamed, nLines, lastEvent,
                   gotDelta, connOpen, doneDelta>>
    /\ UNCHANGED <<nameVars, chunkVars, dedupVars, callVars, batchVars>>

ReadingPastEnd(s) == s \in {"Streaming"} \cup Terminal

\* the loop over response.iter_lines() (line 516) is running: no return, break
\* or exception has left it
Reading(s) == s = "Streaming"

\* iter_lines yields a decodable line (lines 516-553)
StreamJson(has, delta, done) ==
    /\ Reading(st)
    /\ done \/ nLines < MaxLines(feed)
    \* a batch stream carries its text in one line, ahead of the done line
    /\ (feed = "batch" /\ has) => (response_text = <<>> /\ ~done)
    /\ \E o \in {LineOutcome(response_text, last_output_time, no_output_count,
                             last_check_length, has, delta, done, clock)} :
          /\ st' = o.st
          /\ response_text' = o.text
          /\ last_output_time' = o.lot
          /\ no_output_count' = o.cnt
          /\ last_check_length' = o.lcl
          /\ sret' = IF o.st \in Terminal THEN ReturnedText(o.st, o.text) ELSE sret
          /\ connOpen' \in (IF o.st \in Terminal THEN Abandoned ELSE {connOpen})
          /\ repSince' = IF ~has THEN repSince
                         ELSE IF detect_repetition(o.text, window_size)
                              THEN (IF repSince = -1 THEN Len(o.text) ELSE repSince)
                              ELSE -1
    /\ waitFrom' = clock
    /\ lastDeltaAt' = IF has THEN clock ELSE lastDeltaAt
    /\ lastDeltaLen' = IF has THEN Len(delta) ELSE lastDeltaLen
    /\ nLines' = IF done THEN nLines ELSE nLines + 1
    /\ lastEvent' = IF done THEN "done" ELSE "line"
    /\ gotDelta' = (gotDelta \/ has)
    /\ doneDelta' = IF done /\ has THEN delta ELSE doneDelta
    /\ UNCHANGED <<clock, streamed>>
    /\ UNCHANGED <<nameVars, chunkVars, dedupVars, callVars, batchVars>>

\* a blank keep-alive line (if line: fails) or an undecodable one
\* (json.JSONDecodeError: continue)
StreamSkip ==
    /\ Reading(st)
    /\ feed = "timing"
    /\ nLines < MaxLines(feed)
    /\ nLines' = nLines + 1
    /\ waitFrom' = clock
    /\ lastEvent' = "skip"
    /\ UNCHANGED <<st, response_text, last_output_time, no_output_count, last_check_length,
                   sret, clock, lastDeltaAt, lastDeltaLen, repSince, streamed, gotDelta,
                   connOpen, doneDelta>>
    /\ UNCHANGED <<nameVars, chunkVars, dedupVars, callVars, batchVars>>

\* a line json.loads cannot read as UTF-8 (UnicodeDecodeError), or whose JSON
\* value is not an object ('response' in data, data.get: TypeError,
\* AttributeError): neither is a json.JSONDecodeError, the handler of line 572
\* returns ""
StreamFrameFault ==
    /\ Reading(st)
    /\ feed = "timing"
    /\ nLines < MaxLines(feed)
    /\ st' = "TransportError"
    /\ sret' = ReturnedText("TransportError", response_text)
    /\ nLines' = nLines + 1
    /\ lastEvent' = "bad"
    /\ connOpen' \in Abandoned
    /\ UNCHANGED <<response_text, last_output_time, no_output_count, last_check_length,
                   clock, waitFrom, lastDeltaAt, lastDeltaLen, repSince, streamed, gotDelta,
                   doneDelta>>
    /\ UNCHANGED <<nameVars, chunkVars, dedupVars, callVars, batchVars>>

\* the endpoint closes the stream without a done line: the loop ends
StreamEnd ==
    /\ Reading(st)
    /\ EndRequest("Completed", clock, Released)
    /\ UNCHANGED <<nameVars, chunkVars, dedupVars, callVars, batchVars>>

\* nothing arrives for timeout= seconds: the read times out inside iter_lines;
\* the library raises it as a Timeout or wrapped in a ConnectionError
StreamReadTimeout(term) ==
    /\ Reading(st)
    /\ term \in {"TimedOut", "TransportError"}
    /\ EndRequest(term, waitFrom + TimeoutOf(client), Released)
    /\ UNCHANGED <<nameVars, chunkVars, dedupVars, callVars, batchVars>>

\* the connection breaks in mid-stream (handler of line 572)
StreamBreak ==
    /\ Reading(st)
    /\ EndRequest("TransportError", clock, Released)
    /\ UNCHANGED <<nameVars, chunkVars, dedupVars, callVars, batchVars>>

StreamNext ==
    \/ ConnectOk
    \/ ConnectTimeout
    \/ ConnectError
    \/ \E has \in BOOLEAN, done \in BOOLEAN :
          \E delta \in (IF has THEN Deltas(feed, response_text) ELSE {<<>>}) :
              StreamJson(has, delta, done)
    \/ StreamEnd
    \/ \E term \in Terminal : StreamReadTimeout(term)
    \/ StreamBreak

RequestNext ==
    \/ StreamNext
    \/ Tick
    \/ StreamSkip
    \/ StreamFrameFault
    \/ \E b \in Bodies : PlainResponse(b)

\* ------------------------------------------------------------------------
\* One generate call: call_ollama (lines 422-480), call_llamacpp
\* ------------------------------------------------------------------------
CallIdle ==
    /\ attempt = 0 /\ cpc = "idle" /\ cret = <<>> /\ outcomes = <<>>

\* how an ended request is logged
OutcomeOf(term, ret) ==
    IF term = "TimedOut" THEN "timeout"
    ELSE IF term = "TransportError" THEN "error"
    ELSE IF ret = <<>> THEN "empty" ELSE "text"

\* the loop is entered: attempt 0 issues its request
CallStart ==
    /\ cpc = "idle"
    /\ bpc \in {"off", "call", "regen"}
    /\ cpc' = "waiting" /\ attempt' = 0 /\ cret' = <<>> /\ outcomes' = <<>>
    /\ IssueRequest
    /\ calls' = calls + 1
    /\ UNCHANGED <<client, max_retries, feed>>
    /\ UNCHANGED <<nameVars, chunkVars, dedupVars, loopVars>>

ReturnedEarly(s) == s \in Terminal \cup {"Streaming"}

\* the post, and the reading of its stream, are calls of the one thread:
\* call_ollama goes on when the request has ended (lines 446, 449-478)
Returned(s) == s \in Terminal

\* line 446: return self._stream_response(payload, attempt)
StreamCallReturns(term, ret) == TRUE

\* the streaming request has ended: call_ollama returns what it handed back
CallAfterStream ==
    /\ cpc = "waiting" /\ client = "stream" /\ Returned(st)
    /\ outcomes' = Append(outcomes, OutcomeOf(st, sret))
    /\ IF StreamCallReturns(st, sret) \/ attempt >= max_retries
       THEN /\ cpc' = "returned" /\ cret' = sret
            /\ UNCHANGED <<attempt, streamVars>>
       ELSE /\ attempt' = attempt + 1
            /\ IssueRequest
            /\ UNCHANGED <<cpc, cret>>
    /\ UNCHANGED <<client, max_retries, feed>>
    /\ UNCHANGED <<nameVars, chunkVars, dedupVars, batchVars>>

AttemptsRemainOneMore(a, m) == a <= m

\* attempts remain after an empty answer or an exception (lines 461, 467, 474)
AttemptsRemain(a, m) == a < m

PlainAnsweredAny(term, ret) == term = "Completed"

\* if response_text: return response_text (lines 459-460; call_llamacpp
\* lines 254-257)
PlainAnswered(term, ret) == term = "Completed" /\ ret # <<>>

\* the plain post has ended (lines 449-478; call_llamacpp lines 245-276)
CallAfterPlain ==
    /\ cpc = "waiting" /\ client # "stream" /\ Returned(st)
    /\ outcomes' = Append(outcomes, OutcomeOf(st, sret))
    /\ IF PlainAnswered(st, sret)
       THEN /\ cpc' = "returned" /\ cret' = sret
            /\ UNCHANGED <<attempt, streamVars>>
       ELSE IF AttemptsRemain(attempt, max_retries)
       THEN /\ attempt' = attempt + 1
            /\ IssueRequest
            /\ UNCHANGED <<cpc, cret>>
       ELSE /\ cpc' = "returned" /\ cret' = <<>>
            /\ UNCHANGED <<attempt, streamVars>>
    /\ UNCHANGED <<client, max_retries, feed>>
    /\ UNCHANGED <<nameVars, chunkVars, dedupVars, batchVars>>

CallInit ==
    /\ client \in {"stream", "plain", "llamacpp"}
    /\ max_retries \in 0..MaxRetriesArg
    /\ feed \in {"bulk", "timing"}
    /\ CallIdle
    /\ RequestIdle

CallNext ==
    \/ CallStart
    \/ CallAfterStream
    \/ CallAfterPlain
    \/ RequestNext

BatchIdle ==
    /\ bpc = "off" /\ flow = "none" /\ transcript = <<>> /\ chunks = <<>> /\ idx = 0
    /\ processed_chunks = <<>> /\ total_output_length = 0 /\ results = <<>>
    /\ calls = 0 /\ trail = <<>> /\ first_result = <<>> /\ document = <<>>

RunIdle ==
    /\ client = "stream" /\ max_retries = 0 /\ feed = "bulk"
    /\ CallIdle
    /\ RequestIdle
    /\ BatchIdle

\* ------------------------------------------------------------------------
\* The batch loops: process_transcript (lines 576-688) and
\* translate_to_english (english_translator-ollama.py lines 352-400)
\* ------------------------------------------------------------------------
TurnLen == 796          \* characters one speaker says in a batch transcript

ShortTurnLen == 11      \* characters of a short turn

Turn(c) == <<LBRACKET, c, RBRACKET, COLON>> \o [k \in 1..TurnLen |-> ChX]
ShortTurn == TagA \o [k \in 1..ShortTurnLen |-> ChX]
Transcripts == {<<>>, <<SP, NL>>, ShortTurn, Turn(ChA), Turn(ChA) \o <<NL>> \o Turn(ChB)}

process_max_chars == 1000
translate_max_chars == 1500
resume_max_chars == 800
min_ratio == 60
max_ratio == 300

max_chars_of(f) ==
    IF f = "process" THEN process_max_chars
    ELSE IF f = "translate" THEN translate_max_chars ELSE resume_max_chars

BatchInit ==
    /\ bpc = "start" /\ flow \in {"process", "translate", "resume"}
    /\ transcript \in Transcripts
    /\ chunks = <<>> /\ idx = 0 /\ processed_chunks = <<>> /\ total_output_length = 0
    /\ results = <<>> /\ calls = 0 /\ trail = <<>> /\ first_result = <<>> /\ document = <<>>
    /\ client = "stream" /\ max_retries = 2 /\ feed = "batch"
    /\ CallIdle
    /\ RequestIdle

\* chunks = self.split_text(...); the loop is entered
BatchBegin ==
    /\ bpc = "start"
    /\ chunks' = split_text(transcript, max_chars_of(flow))
    /\ idx' = 1
    /\ bpc' = "call"
    /\ UNCHANGED <<flow, transcript, processed_chunks, total_output_length, results, calls,
                   trail, first_result, document>>
    /\ UNCHANGED <<nameVars, chunkVars, dedupVars, streamVars, callVars>>

\* _stream_response has returned: its locals are gone
RequestGone ==
    /\ st' = "Idle" /\ response_text' = <<>> /\ last_output_time' = 0
    /\ no_output_count' = 0 /\ last_check_length' = 0 /\ sret' = <<>>
    /\ clock' = 0 /\ waitFrom' = 0 /\ lastDeltaAt' = 0 /\ lastDeltaLen' = 0
    /\ repSince' = -1 /\ streamed' = FALSE /\ nLines' = 0 /\ lastEvent' = "none"
    /\ gotDelta' = FALSE /\ connOpen' = FALSE /\ doneDelta' = <<>>

\* the call has returned and its value is taken
CallTaken ==
    /\ cpc' = "idle" /\ attempt' = 0 /\ cret' = <<>> /\ outcomes' = <<>>
    /\ RequestGone
    /\ UNCHANGED <<client, max_retries, feed>>

\* entry is appended for segment idx and the loop goes on, or ends
PlaceEntry(entry) ==
    /\ processed_chunks' = Append(processed_chunks, entry)
    /\ total_output_length' = total_output_length + Len(entry)
    /\ results' = Append(results, cret)
    /\ trail' = Append(trail, [first |-> IF bpc = "call" THEN cret ELSE first_result,
                               calls |-> calls])
    /\ calls' = 0
    /\ first_result' = <<>>
    /\ IF idx < Len(chunks)
       THEN idx' = idx + 1 /\ bpc' = "call"
       ELSE idx' = idx /\ bpc' = "join"
    /\ UNCHANGED <<flow, transcript, chunks, document>>

\* an exception leaves the loop: the batch ends without a document
Fault ==
    /\ bpc' = "fault"
    /\ UNCHANGED <<flow, transcript, chunks, idx, total_output_length, results, calls, trail,
                   first_result, document>>

\* the result is under length: the prompt is generated once more
Regenerate ==
    /\ bpc' = "regen"
    /\ first_result' = cret
    /\ UNCHANGED <<flow, transcript, chunks, idx, processed_chunks, total_output_length,
                   results, calls, trail, document>>

UnderLengthOrEqual(result, chunk) == Len(result) * 100 <= min_ratio * Len(chunk)

\* ratio < 60 (line 631; resume_from_checkpoint.py line 88)
UnderLength(result, chunk) == Len(result) * 100 < min_ratio * Len(chunk)

EntryOfFirst(entry, chunk) == IF entry # <<>> THEN entry ELSE first_result

\* the formatted result is appended; an empty one is popped again and chunk
\* appended in its place (lines 641-657)
EntryOf(entry, chunk) == IF entry # <<>> THEN entry ELSE chunk

\* process_transcript, lines 613-631 and 658-661: the first generation of a
\* segment has returned
ProcessAfterFirst ==
    /\ bpc = "call" /\ flow = "process" /\ cpc = "returned"
    /\ CallTaken
    /\ LET chunk == chunks[idx] IN
       IF cret = <<>>
       THEN PlaceEntry(chunk)
       ELSE \E result \in {remove_duplicates(cret)} :
              IF Len(chunk) = 0
              THEN Fault /\ UNCHANGED processed_chunks      \* line 628 divides by chunk_length
              ELSE IF UnderLength(result, chunk)
              THEN Regenerate
              ELSE \E entry \in {format_speaker_paragraphs(result)} :
                     PlaceEntry(EntryOf(entry, chunk))
    /\ UNCHANGED <<nameVars, chunkVars, dedupVars>>

\* process_transcript, lines 633-657: the regeneration has returned
ProcessAfterRegen ==
    /\ bpc = "regen" /\ flow = "process" /\ cpc = "returned"
    /\ CallTaken
    /\ \E entry \in {format_speaker_paragraphs(IF cret # <<>> THEN remove_duplicates(cret)
                                               ELSE cret)} :
          PlaceEntry(EntryOf(entry, chunks[idx]))
    /\ UNCHANGED <<nameVars, chunkVars, dedupVars>>

\* translate_to_english, lines 381-394
TranslateAfterCall ==
    /\ bpc = "call" /\ flow = "translate" /\ cpc = "returned"
    /\ CallTaken
    /\ LET chunk == chunks[idx] IN
       IF cret = <<>>
       THEN PlaceEntry(chunk)
       ELSE IF Len(chunk) = 0
       THEN /\ Fault                     \* line 385 divides by len(chunk)
            /\ processed_chunks' = Append(processed_chunks, cret)
       ELSE PlaceEntry(cret)
    /\ UNCHANGED <<nameVars, chunkVars, dedupVars>>

TruncateAtPeriod(result, chunk_length) ==
    LET truncated == Slice(result, 1, MinOf({Len(result), chunk_length * 2}))
        periods == {i \in 1..Len(truncated) : truncated[i] = PERIOD}
    IN IF periods # {} THEN Slice(truncated, 1, MaxOf(periods)) ELSE truncated

\* result[:chunk_length * 2], cut after its last '。' if that lies beyond
\* chunk_length (resume_from_checkpoint.py lines 79-86)
Truncate(result, chunk_length) ==
    LET truncated == Slice(result, 1, MinOf({Len(result), chunk_length * 2}))
        periods == {i \in 1..Len(truncated) : truncated[i] = PERIOD}
        last_period == IF periods = {} THEN -1 ELSE MaxOf(periods) - 1
    IN IF last_period > chunk_length
       THEN Slice(truncated, 1, last_period + 1)
       ELSE truncated

OverLength(result, chunk) == Len(result) * 100 > max_ratio * Len(chunk)

\* resume_processing, lines 72-105: the first generation of a segment has
\* returned
ResumeAfterFirst ==
    /\ bpc = "call" /\ flow = "resume" /\ cpc = "returned"
    /\ CallTaken
    /\ LET chunk == chunks[idx] IN
       IF cret = <<>>
       THEN PlaceEntry(chunk)
       ELSE IF Len(chunk) = 0
       THEN Fault /\ UNCHANGED processed_chunks          \* line 75 divides by chunk_length
       ELSE IF OverLength(cret, chunk)
       THEN PlaceEntry(Truncate(cret, Len(chunk)))
       ELSE IF UnderLength(cret, chunk)
       THEN Regenerate
       ELSE PlaceEntry(cret)
    /\ UNCHANGED <<nameVars, chunkVars, dedupVars>>

\* resume_processing, lines 88-100: the regeneration has returned
ResumeAfterRegen ==
    /\ bpc = "regen" /\ flow = "resume" /\ cpc = "returned"
    /\ CallTaken
    /\ PlaceEntry(IF cret # <<>> THEN cret ELSE chunks[idx])
    /\ UNCHANGED <<nameVars, chunkVars, dedupVars>>

\* the loop is over: the entries are joined and the statistics printed
BatchFinish ==
    /\ bpc = "join"
    /\ IF flow = "process" /\ Len(transcript) = 0
       THEN bpc' = "fault" /\ UNCHANGED document     \* line 670 divides by len(transcript)
       ELSE /\ document' = JoinSep(processed_chunks, <<NL, NL>>)
            \* resume_processing has saved the document when its line 116 divides
            /\ bpc' = IF flow = "resume" /\ Len(transcript) = 0 THEN "fault" ELSE "done"
    /\ UNCHANGED <<flow, transcript, chunks, idx, processed_chunks, total_output_length,
                   results, calls, trail, first_result>>
    /\ UNCHANGED <<nameVars, chunkVars, dedupVars, streamVars, callVars>>

BatchNext ==
    \/ BatchBegin
    \/ CallStart
    \/ CallAfterStream
    \/ StreamNext
    \/ ProcessAfterFirst
    \/ ProcessAfterRegen
    \/ TranslateAfterCall
    \/ ResumeAfterFirst
    \/ ResumeAfterRegen
    \/ BatchFinish

\* ------------------------------------------------------------------------
\* Claims about the chunker (checked under SpecChunker)
\* ------------------------------------------------------------------------
\* the segment is one whole speaker block of the transcript, alone
IsSingleSpeakerBlock(seg, text) ==
    \E k \in 1..Len(SpeakerBlocks(text)) : SpeakerBlocks(text)[k] = seg

\* C8: the segments of split_text(T, N), concatenated in order, hold every
\* non-white-space character of T exactly once and in the original order
\* (nothing lost, nothing duplicated, text before the first speaker tag
\* included).
C8_SplitKeepsAllContent ==
    ckPhase = "done" => NonWS(Join(ckOut)) = NonWS(ckText)

\* C9: every segment of split_text(T, N) has length <= N, except a segment
\* that is a single speaker block longer than N.
C9_SegmentsWithinBudget ==
    ckPhase = "done" =>
        \A k \in 1..Len(ckOut) :
            \/ Len(ckOut[k]) <= ckMax
            \/ IsSingleSpeakerBlock(ckOut[k], ckText) /\ Len(ckOut[k]) > ckMax

\* the speaker blocks a segment holds: its lines, the blank ones left out
BlocksOf(seg) == SelectSeq(SplitLines(seg), LAMBDA l : l # <<>>)

C22_NoEmptySpeakerTurn ==
    ckPhase = "done" =>
        \A k \in 1..Len(ckOut) :
            \A l \in 1..Len(SplitLines(ckOut[k])) :
                LET line == SplitLines(ckOut[k])[l]
                IN SpeakerMatchLen(line) > 0
                     => Strip(Slice(line, SpeakerMatchLen(line) + 1, Len(line))) # <<>>

\* the text has no line that starts with a speaker tag
NoSpeakerTag(text) ==
    \A l \in 1..Len(SplitLines(text)) : SpeakerMatchLen(SplitLines(text)[l]) = 0

\* C23: the segments of a text without speaker tags hold its sentences in
\* order, and none of them is longer than max_chars.
C23_FallbackWithinBudget ==
    (ckPhase = "done" /\ NoSpeakerTag(ckText)) =>
        /\ NonWS(Join(ckOut)) = NonWS(ckText)
        /\ \A k \in 1..Len(ckOut) : Len(ckOut[k]) <= ckMax

\* C17: split_text of the empty text returns the empty list, and no list
\* split_text returns holds the empty string.
C17_EmptyInputGivesNoSegment ==
    ckPhase = "done" =>
        /\ ckText = <<>> => ckOut = <<>>
        /\ \A k \in 1..Len(ckOut) : ckOut[k] # <<>>

\* C18: speaker blocks of 500, 400 and 400 characters with max_chars = 800
\* give two segments, the first block alone and the other two packed into one
\* segment of 800 characters.
C18_PacksUpToBudget ==
    (/\ ckPhase = "done" /\ ckMax = 800
     /\ ckText = Block(ChA, 500) \o <<NL>> \o Block(ChB, 400) \o <<NL>> \o Block(ChA, 400) \o <<NL>>)
    => /\ Len(ckOut) = 2
       /\ ckOut[1] = Block(ChA, 500)
       /\ Len(ckOut[2]) = 800

\* ------------------------------------------------------------------------
\* Claims about the file names (checked under SpecName)
\* ------------------------------------------------------------------------
\* C20: the name returned is the base name with '_' and the timestamp spliced
\* in just before its last '.', or put at its end when it has no '.'; every
\* character of the base name stays where it was on either side.
C20_StampBeforeExtension ==
    fnPhase = "done" =>
        LET dots == {i \in 1..Len(fnBase) : fnBase[i] = DOT}
            keep == IF dots = {} THEN Len(fnBase)
                    ELSE CHOOSE i \in dots : \A j \in dots : j <= i
            head == IF dots = {} THEN Len(fnBase) ELSE keep - 1
        IN /\ Len(fnOut) = Len(fnBase) + 1 + Len(fnStamp)
           /\ \A i \in 1..head : fnOut[i] = fnBase[i]
           /\ fnOut[head + 1] = UNDERSCORE
           /\ \A i \in 1..Len(fnStamp) : fnOut[head + 1 + i] = fnStamp[i]
           /\ \A i \in (head + 1)..Len(fnBase) : fnOut[i + 1 + Len(fnStamp)] = fnBase[i]

\* a base name with two dots has been stamped
C20_Witness ==
    /\ fnPhase = "done"
    /\ Cardinality({i \in 1..Len(fnBase) : fnBase[i] = DOT}) = 2
    /\ fnBase[Len(fnBase)] # DOT
    /\ fnBase[1] # DOT

\* ------------------------------------------------------------------------
\* Claims about the deduplicator (checked under SpecDedup)
\* ------------------------------------------------------------------------
\* C10: remove_duplicates is idempotent: a second pass over its own output
\* changes nothing.
C10_DedupIdempotent ==
    ddPhase = "twice" => ddOut2 = ddOut

\* the kept units after the first k units of the sentence pass
KeptAfter(list, k) == DedupSentences(SubSeq(list, 1, k), 1, <<>>)

\* the kept paragraphs after the first k paragraphs of the paragraph pass
KeptParagraphsAfter(paras, k) == DedupParagraphs(SubSeq(paras, 1, k), 1, <<>>)

Count(list, u) == Cardinality({q \in 1..Len(list) : list[q] = u})

\* the comparison of lines 298-308: two units the sentence pass takes for
\* duplicates of each other
SimilarUnits(a, b) ==
    /\ Clean(a) # <<>> /\ Clean(b) # <<>>
    /\ Similar(Clean(a), Clean(b))

\* the comparison of lines 335-349: two paragraphs of one speaker the
\* paragraph pass takes for duplicates of each other
SimilarParagraphs(a, b) ==
    LET content(p) == Strip(Slice(p, SpeakerMatchLen(p) + 1, Len(p)))
    IN /\ SpeakerMatchLen(a) > 0 /\ SpeakerMatchLen(b) > 0
       /\ SubSeq(a, 1, SpeakerMatchLen(a)) = SubSeq(b, 1, SpeakerMatchLen(b))
       /\ content(a) # <<>> /\ content(b) # <<>>
       /\ Similar(Clean(content(a)), Clean(content(b)))

PairwiseDistinct(list, similar(_, _)) ==
    \A p \in 1..Len(list) : \A q \in (p + 1)..Len(list) : ~similar(list[p], list[q])

\* C11: at every step of the sentence pass, for every kept unit the new unit
\* is similar to, exactly one of the two is kept after the step: the new unit
\* if it is strictly longer, otherwise the kept one (the first seen on equal
\* length) with the new unit discarded.
C11_LongerOfSimilarPairSurvives ==
    ddPhase = "once" =>
        LET list == SentenceList(ddText) IN
        \A k \in 1..Len(list) :
            LET before == KeptAfter(list, k - 1)
                after == KeptAfter(list, k)
                new == list[k]
            IN \A q \in 1..Len(before) :
                  SimilarUnits(new, before[q]) =>
                      IF Len(new) > Len(before[q])
                      THEN Count(after, new) > 0 /\ Count(after, before[q]) = 0
                      ELSE /\ Count(after, before[q]) > 0
                           /\ Count(after, new) = Count(before, new)

\* C12: after every step of the sentence pass no two kept units are similar,
\* and after every step of the paragraph pass no two kept paragraphs of one
\* speaker are similar.
C12_KeptUnitsPairwiseDistinct ==
    ddPhase = "once" =>
        LET list == SentenceList(ddText)
            dedup_text == Join(KeptAfter(list, Len(list)))
            paras == SplitParagraphs(dedup_text, 1, 1)
        IN /\ \A k \in 1..Len(list) : PairwiseDistinct(KeptAfter(list, k), SimilarUnits)
           /\ HasSpeakerMarks(dedup_text) =>
                 \A k \in 1..Len(paras) :
                     PairwiseDistinct(KeptParagraphsAfter(paras, k), SimilarParagraphs)

\* a[i..] can be read off b[j..] from left to right, skipping elements of b
RECURSIVE IsSubsequence(_, _, _, _)
IsSubsequence(a, i, b, j) ==
    IF i > Len(a) THEN TRUE
    ELSE IF j > Len(b) THEN FALSE
    ELSE IF a[i] = b[j] THEN IsSubsequence(a, i + 1, b, j + 1)
    ELSE IsSubsequence(a, i, b, j + 1)

\* the paragraphs the paragraph pass takes up: stripped, the blank ones left out
TakenParagraphs(text) ==
    LET paras == SplitParagraphs(text, 1, 1)
        stripped == [k \in 1..Len(paras) |-> Strip(paras[k])]
    IN SelectSeq(stripped, LAMBDA p : p # <<>>)

\* C24: the units kept by the sentence pass are in the order they have in the
\* input, and so are the paragraphs kept by the paragraph pass, a replacement
\* of an earlier kept unit by a longer new one included; the output is the
\* kept units joined in that order.
C24_SurvivorsKeepInputOrder ==
    ddPhase = "once" =>
        LET list == SentenceList(ddText)
            kept == KeptAfter(list, Len(list))
            dedup_text == Join(kept)
            paras == TakenParagraphs(dedup_text)
            keptParas == KeptParagraphsAfter(paras, Len(paras))
        IN /\ \A k \in 1..Len(list) : IsSubsequence(KeptAfter(list, k), 1, list, 1)
           /\ IF HasSpeakerMarks(dedup_text)
              THEN /\ IsSubsequence(keptParas, 1, paras, 1)
                   /\ ddOut = JoinSep(keptParas, <<NL, NL>>)
              ELSE ddOut = dedup_text

\* a longer new unit has replaced a kept unit that was not the last one kept
C24_Witness ==
    /\ ddPhase = "once"
    /\ LET list == SentenceList(ddText) IN
       \E k \in 2..Len(list) :
           LET before == KeptAfter(list, k - 1)
               after == KeptAfter(list, k)
           IN /\ Len(before) >= 2 /\ Len(after) = Len(before)
              /\ after[Len(after)] = list[k]
              /\ after[Len(after) - 1] = before[Len(before)]
              /\ after[1] # before[1]

\* a speaker tag stands somewhere in the text
HasSpeakerTag(text) ==
    \E i \in 1..Len(text) : SpeakerMatchLen(Slice(text, i, Len(text))) > 0

\* C25: the paragraph pass changes nothing when the text holds no speaker
\* tag; at each of its steps, for every kept paragraph the new paragraph is
\* similar to (same tag, tag-stripped contents at 0.80 or more), exactly the
\* longer of the two is kept afterwards (the kept one on equal length); a kept
\* paragraph is dropped, or a new one discarded, only on account of such a
\* paragraph.
C25_ParagraphPassSameSpeakerOnly ==
    ddPhase = "once" =>
        LET list == SentenceList(ddText)
            dedup_text == Join(KeptAfter(list, Len(list)))
            paras == TakenParagraphs(dedup_text)
        IN /\ ~HasSpeakerTag(dedup_text) => ddOut = dedup_text
           /\ HasSpeakerMarks(dedup_text) =>
                \A k \in 1..Len(paras) :
                    LET before == KeptParagraphsAfter(paras, k - 1)
                        after == KeptParagraphsAfter(paras, k)
                        new == paras[k]
                    IN /\ \A q \in 1..Len(before) :
                            IF SimilarParagraphs(new, before[q])
                            THEN IF Len(new) > Len(before[q])
                                 THEN Count(after, new) > 0 /\ Count(after, before[q]) = 0
                                 ELSE /\ Count(after, before[q]) > 0
                                      /\ Count(after, new) = Count(before, new)
                            ELSE Count(after, before[q]) >= Count(before, before[q])
                       /\ (\A q \in 1..Len(before) : ~SimilarParagraphs(new, before[q]))
                             => after = Append(before, new)

\* the positions of text at which the speaker tag stands
TagPositions(text, tag) ==
    {i \in 1..(Len(text) - Len(tag) + 1) : SubSeq(text, i, i + Len(tag) - 1) = tag}

\* every speaker tag of the text that is not at its start follows a blank line
TagsFollowBlankLines(text) ==
    \A tag \in {TagA, TagB} : \A i \in TagPositions(text, tag) :
        i = 1 \/ (i >= 3 /\ text[i - 2] = NL /\ text[i - 1] = NL)

\* C26: a speaker who has one turn in the text (a turn no other turn of that
\* speaker can duplicate) still has the tag in the output, whatever the other
\* speakers say; and when every speaker tag of the input follows a blank
\* line, so does every speaker tag of the output.
C26_SpeakerTurnsPreserved ==
    ddPhase = "once" =>
        /\ \A tag \in {TagA, TagB} :
              Cardinality(TagPositions(ddText, tag)) = 1 => TagPositions(ddOut, tag) # {}
        /\ TagsFollowBlankLines(ddText) => TagsFollowBlankLines(ddOut)

\* ------------------------------------------------------------------------
\* Claims about one generate call and its request (checked under SpecCall)
\* ------------------------------------------------------------------------
\* every attempt so far ended in a timeout or a transport error
AllFailed(os) == \A k \in 1..Len(os) : os[k] \in {"timeout", "error"}

\* C1: call_ollama with its default arguments (streaming, max_retries = 2) is
\* retried after each empty result: it does not return while an attempt that
\* produced empty output is its last and attempts remain, and when the first
\* two attempts are empty and the third is not, the third's text is returned.
C1_RetriesAfterEmpty ==
    (cpc = "returned" /\ client = "stream" /\ max_retries = 2)
        => /\ (outcomes[Len(outcomes)] = "empty" => Len(outcomes) = max_retries + 1)
           /\ (outcomes = <<"empty", "empty", "text">> => cret = sret /\ cret # <<>>)

\* C3: an attempt that ends TimedOut or TransportError is retried while
\* attempts remain; when every attempt ended so, all max_retries + 1 attempts
\* were made and the call returns the empty text.
C3_RetriesAfterFault ==
    (cpc = "returned" /\ AllFailed(outcomes))
        => Len(outcomes) = max_retries + 1 /\ cret = <<>>

\* C13: one generate call issues at most max_retries + 1 requests, none
\* after max_retries + 1 attempts have ended, and what it returns then is
\* what the last attempt handed back, the empty text included.
C13_AtMostMaxRetriesPlusOne ==
    /\ Len(outcomes) <= max_retries + 1
    /\ cpc # "idle" => attempt + 1 <= max_retries + 1
    /\ cpc = "waiting" => Len(outcomes) = attempt
    /\ cpc = "returned" => Len(outcomes) = attempt + 1
    /\ (cpc = "returned" /\ Len(outcomes) = max_retries + 1) => cret = sret

\* all three attempts of a call were made and the last one's empty result
\* is returned
C13_Witness ==
    /\ cpc = "returned" /\ max_retries = 2 /\ Len(outcomes) = 3
    /\ outcomes[3] = "empty" /\ cret = <<>>

\* C4 as stated: in every terminal state other than Completed the request
\* hands back the text accumulated from the deltas it received.
C4_PartialAlwaysReturned ==
    st \in {"Stalled", "RepetitionStopped", "TimedOut", "TransportError"}
        => sret = Strip(response_text)

\* C4: a request that ends Stalled or RepetitionStopped hands back the
\* accumulated text, stripped; one that ends TimedOut or TransportError hands
\* back the empty text whatever it had accumulated.
C4_PartialReturnedUnlessFault ==
    /\ st \in {"Stalled", "RepetitionStopped"} => sret = Strip(response_text)
    /\ st \in {"TimedOut", "TransportError"} => sret = <<>>

\* a request stopped by a watchdog hands back a partial text that needed
\* stripping
C4_Witness ==
    st \in {"Stalled", "RepetitionStopped"} /\ sret # <<>> /\ sret # response_text

\* C5: a stream that has stopped emitting deltas for longer than
\* max_no_output_intervals * check_interval ends Stalled and hands back the
\* text accumulated before the silence.
C5_SilenceEndsStalled ==
    (st \in Terminal /\ streamed /\ response_text # <<>>
        /\ clock - lastDeltaAt > max_no_output_intervals * check_interval)
        => st = "Stalled" /\ sret = Strip(response_text)

\* C6 as stated: once the tail of the accumulated text repeats, the request
\* stops as RepetitionStopped having consumed at most 500 further characters.
C6_StopsWithinInterval ==
    (st \in {"Streaming", "RepetitionStopped"} /\ repSince >= 0)
        => Len(response_text) - repSince <= 500

\* C6: while the tail of the accumulated text repeats, a request still
\* Streaming has consumed fewer than 500 characters since the repetition
\* began; it stops as RepetitionStopped on the first line that brings the
\* growth since the last check to 500, having consumed fewer than 500
\* characters plus that line's delta, and consumes nothing afterwards.
C6_StopsAtFirstDueLine ==
    /\ [](/\ (st = "Streaming" /\ repSince >= 0)
                => Len(response_text) - repSince < 500
          /\ st = "RepetitionStopped"
                => /\ repSince >= 0
                   /\ Len(response_text) - repSince < 500 + lastDeltaLen
                   /\ Len(response_text) - last_check_length >= 500)
    /\ [][st = "RepetitionStopped" => response_text' = response_text]_vars

\* a request stopped for repetition more than 500 characters after it began
C6_Witness ==
    st = "RepetitionStopped" /\ Len(response_text) - repSince > 500

C2_EverySegmentGetsItsEntry ==
    /\ bpc # "fault"
    /\ bpc \in {"call", "regen"} => Len(processed_chunks) = idx - 1
    /\ bpc \in {"join", "done"} => Len(processed_chunks) = Len(chunks)
    /\ \A k \in 1..Len(processed_chunks) :
          results[k] = <<>> => processed_chunks[k] = chunks[k]

\* what the under-length check of segment k measured: the first result after
\* remove_duplicates in process_transcript, the first result itself in
\* resume_processing
MeasuredFirst(k) ==
    IF flow = "process" THEN remove_duplicates(trail[k].first) ELSE trail[k].first

FirstWasShort(k) ==
    /\ trail[k].first # <<>>
    /\ Len(MeasuredFirst(k)) * 100 < 60 * Len(chunks[k])

\* what is kept of a non-empty regeneration
KeptOfRegeneration(k) ==
    IF flow = "process"
    THEN LET e == format_speaker_paragraphs(remove_duplicates(results[k]))
         IN IF e # <<>> THEN e ELSE chunks[k]
    ELSE results[k]

C15_TerminalStatesAbsorbing ==
    [][(/\ st \in {"Completed", "Stalled", "RepetitionStopped", "TimedOut", "TransportError"}
        /\ attempt' = attempt)
       => /\ st' = st
          /\ response_text' = response_text
          /\ nLines' = nLines
          /\ sret' = sret
          /\ no_output_count' = no_output_count
          /\ last_output_time' = last_output_time
          /\ last_check_length' = last_check_length]_vars

\* a stalled request's text has been handed back by the call
C15_Witness ==
    /\ st = "Stalled" /\ cpc = "returned" /\ response_text # <<>>

\* C16: the step that takes a line with done set ends the request as
\* Completed and runs neither check: no idle strike is counted, the idle timer
\* is not restarted by the idle check and the repetition-check length stays.
C16_DoneGoesToCompleted ==
    [][(st = "Streaming" /\ lastEvent' = "done")
       => /\ st' = "Completed"
          /\ no_output_count' \in {no_output_count, 0}
          /\ last_output_time' \in {last_output_time, clock}
          /\ (last_output_time' # last_output_time => response_text' # response_text
                                                      \/ lastDeltaAt' = clock)
          /\ last_check_length' = last_check_length]_vars

\* a done line was taken when a third idle strike was due
C16_Witness ==
    /\ lastEvent = "done" /\ st = "Completed"
    /\ no_output_count = 2
    /\ clock - last_output_time > 30

\* C19: the step that takes a malformed frame (one that is not JSON text, not
\* UTF-8 or not a JSON object) leaves the request's state, its text, the
\* strike counter, the idle timer and the repetition-check length unchanged.
C19_MalformedFrameSkipped ==
    [][(st = "Streaming" /\ lastEvent' \in {"skip", "bad"} /\ nLines' = nLines + 1)
       => /\ st' = "Streaming"
          /\ response_text' = response_text
          /\ no_output_count' = no_output_count
          /\ last_output_time' = last_output_time
          /\ last_check_length' = last_check_length]_vars

IsPrefix(a, b) == Len(a) <= Len(b) /\ SubSeq(b, 1, Len(a)) = a

\* C27 as stated: every step of a request extends the accumulated text, and
\* the accumulated text of an ended request is a prefix of what the request
\* hands back.
C27_AccumulatedIsPrefixOfOutput ==
    [][(st \in {"Connecting", "Streaming"})
       => (/\ IsPrefix(response_text, response_text')
           /\ (st' \in Terminal => IsPrefix(response_text', sret')))]_vars

\* C27: every step of a request extends the accumulated text; a request that
\* ends Completed, Stalled or RepetitionStopped hands back its accumulated
\* text without the white space at its two ends, one that ends TimedOut or
\* TransportError hands back the empty text.
C27_AppendOnlyAndStrippedOutput ==
    [][(st \in {"Connecting", "Streaming"})
       => /\ IsPrefix(response_text, response_text')
          /\ (st' \in {"TimedOut", "TransportError"} => sret' = <<>>)
          /\ st' \in {"Completed", "Stalled", "RepetitionStopped"}
                => \E lead \in 0..Len(response_text') :
                         /\ IsPrefix(sret', Slice(response_text', lead + 1, Len(response_text')))
                         /\ \A i \in 1..lead : response_text'[i] \in WhiteSpace
                         /\ \A i \in (lead + Len(sret') + 1)..Len(response_text') :
                               response_text'[i] \in WhiteSpace
                         /\ (sret' # <<>> => (sret'[1] \notin WhiteSpace
                                             /\ sret'[Len(sret')] \notin WhiteSpace))]_vars

\* a completed request whose accumulated text began or ended with white space
C27_Witness ==
    /\ st = "Completed" /\ streamed
    /\ sret # <<>> /\ sret # response_text

\* C28: the strikes counted are consecutive ones since the last delta (since
\* the request was issued, before the first): each needs more than 30 s, so
\* after a delta the counter is 0, a request is Stalled only with 3 strikes
\* and more than 90 s after its last delta, and a stream whose deltas are
\* never more than 30 s apart is never Stalled.
C28_StalledOnlyAfterThreeStrikes ==
    LET since == IF gotDelta THEN lastDeltaAt ELSE 0
    IN /\ no_output_count \in 0..3
       /\ no_output_count > 0 => clock - since > 30 * no_output_count
       /\ st = "Stalled" => (no_output_count = 3 /\ clock - since > 90)
       /\ (st = "Streaming" /\ gotDelta /\ lastDeltaAt = clock)
             => (no_output_count = 0 /\ last_output_time = clock)

\* a request that had received text is Stalled
C28_Witness ==
    /\ st = "Stalled" /\ gotDelta /\ lastDeltaLen > 0
    /\ no_output_count = 3

\* C29: requests are issued one after the other: a request is issued (by a
\* first attempt, a further attempt, or the regeneration call) only when no
\* request is open, the request before it having ended, and a request is
\* open only while its call waits for it.
C29_RequestsStrictlySequential ==
    /\ [](st \in {"Connecting", "Streaming"} => cpc = "waiting")
    /\ [][(calls' > calls \/ attempt' > attempt)
           => (st \in Terminal \cup {"Idle"} /\ st' = "Connecting")]_vars

\* the regeneration request of a segment is open, the first one has ended
C29_Witness ==
    /\ bpc = "regen" /\ st \in {"Connecting", "Streaming"}
    /\ calls >= 2 /\ first_result # <<>>

\* C30: a request that has reached a terminal state holds no open stream.
C30_NoStreamOpenAfterTerminal ==
    st \in Terminal => ~connOpen

ProcessedOutput(text) ==
    format_speaker_paragraphs(IF text # <<>> THEN remove_duplicates(text) ELSE text)

\* C32: process_transcript holds one entry per segment it has finished, in
\* segment order; an entry is the non-empty deduplicated and formatted
\* output generated last for the segment, or the segment's text; it is the
\* segment's text when the regeneration of an under-length output came back
\* empty.
C32_OneEntryPerSegment ==
    (flow = "process" /\ bpc \in {"call", "regen", "join", "done"}) =>
        /\ Len(processed_chunks) = (IF bpc \in {"call", "regen"} THEN idx - 1 ELSE Len(chunks))
        /\ Len(results) = Len(processed_chunks) /\ Len(trail) = Len(processed_chunks)
        /\ \A k \in 1..Len(processed_chunks) :
              /\ \/ processed_chunks[k] = chunks[k]
                 \/ /\ processed_chunks[k] # <<>>
                    /\ processed_chunks[k] = ProcessedOutput(results[k])
              /\ (trail[k].calls = 2 /\ results[k] = <<>>) => processed_chunks[k] = chunks[k]

\* the regeneration of an under-length first output came back empty
C32_Witness ==
    /\ flow = "process" /\ bpc \in {"call", "join", "done"} /\ Len(processed_chunks) >= 1
    /\ trail[1].calls = 2 /\ trail[1].first # <<>> /\ results[1] = <<>>
    /\ processed_chunks[1] = chunks[1] /\ chunks[1] # trail[1].first

\* C33: process_transcript never ends in an unhandled fault, whatever the
\* transcript and whatever the endpoint answers.
C33_ProcessNeverFaults ==
    flow = "process" => bpc # "fault"

\* C34: detect_repetition answers false for a text shorter than twice the
\* window; otherwise it answers true exactly when the last window_size
\* characters stand, as one piece, somewhere inside the characters that
\* precede them and belong to the last 500 of the text.
RepeatedTail(text, w) ==
    LET n == Len(text)
        tail == Slice(text, n - w + 1, n)
        first == IF n > 500 THEN n - 500 + 1 ELSE 1
    IN /\ n >= 2 * w
       /\ \E p \in first..(n - w) :
             p + w - 1 <= n - w /\ Slice(text, p, p + w - 1) = tail

C34_RepetitionIsTailInWindow ==
    (client = "stream" /\ gotDelta) =>
        ((repSince # -1) <=> RepeatedTail(response_text, window_size))

\* the tail of a text of more than 500 characters is found repeated inside
\* its last 500
C34_Witness ==
    /\ client = "stream" /\ gotDelta /\ Len(response_text) > 500
    /\ repSince # -1 /\ RepeatedTail(response_text, window_size)

\* C35: the line that says done ends the request as Completed with its own
\* text appended: the accumulated text after it is the text before it
\* followed by the text it carried, and the returned text is that text
\* stripped; no earlier line's text is lost on the way.
C35_DoneLineContributesItsDelta ==
    [][(st = "Streaming") =>
          /\ IsPrefix(response_text, response_text')
          /\ (lastEvent' = "done") =>
                /\ st' = "Completed"
                /\ response_text' = response_text \o doneDelta'
                /\ sret' = Strip(response_text')]_vars

\* a done line that carried text ended a request that had text already
C35_Witness ==
    /\ st = "Completed" /\ lastEvent = "done" /\ doneDelta # <<>>
    /\ Len(response_text) > Len(doneDelta) /\ Len(sret) > Len(doneDelta)

\* the elements of list at the places m, in their order
RECURSIVE PickAt(_, _, _)
PickAt(list, m, k) ==
    IF k > Len(list) THEN <<>>
    ELSE (IF k \in m THEN <<list[k]>> ELSE <<>>) \o PickAt(list, m, k + 1)

\* C36: the output of remove_duplicates is made of units of its input, taken
\* in their order: it is a selection of the input's sentences put together,
\* or a selection of the paragraphs such a selection forms; it is never
\* longer than the input, and it is not empty when the input holds a
\* character that is not white space.
C36_OutputMadeOfInputUnits ==
    ddPhase = "once" =>
        /\ Len(ddOut) <= Len(ddText)
        /\ NonWS(ddText) # <<>> => ddOut # <<>>
        /\ LET list == SentenceList(ddText) IN
           \E m \in SUBSET (1..Len(list)) :
              LET chosen == Join(PickAt(list, m, 1))
              IN \/ ddOut = chosen
                 \/ /\ IsSubsequence(TakenParagraphs(ddOut), 1, TakenParagraphs(chosen), 1)
                    /\ ddOut = JoinSep(TakenParagraphs(ddOut), <<NL, NL>>)

\* a unit of the input was dropped and the rest kept
C36_Witness ==
    /\ ddPhase = "once" /\ ddOut # <<>> /\ Len(ddOut) < Len(NonWS(ddText))
    /\ Len(SentenceList(ddOut)) >= 2
    /\ Len(SentenceList(ddOut)) < Len(SentenceList(ddText))

\* C38: in resume_processing a non-empty output longer than 300% of the
\* segment's length L is cut to more than L and at most 2L characters: after
\* the last full stop of its first 2L characters when the index of that full
\* stop (counted from 0) is greater than L, else at 2L; what is kept is a
\* prefix of the output, and the segment is generated once only.
C38_RunawayOutputTruncated ==
    flow = "resume" =>
        \A k \in 1..Len(processed_chunks) :
            LET L == Len(chunks[k])
                out == trail[k].first
                entry == processed_chunks[k]
                head == Slice(out, 1, 2 * L)
                stops == {i \in 1..Len(head) : head[i] = PERIOD /\ i - 1 > L}
            IN (out # <<>> /\ Len(out) * 100 > 300 * L) =>
                  /\ Len(entry) > L /\ Len(entry) <= 2 * L
                  /\ IsPrefix(entry, out)
                  /\ trail[k].calls = 1
                  /\ IF stops # {}
                     THEN /\ entry[Len(entry)] = PERIOD /\ Len(entry) \in stops
                          /\ \A i \in stops : i <= Len(entry)
                     ELSE Len(entry) = 2 * L

\* an over-long output was cut after a full stop short of 2L
C38_Witness ==
    /\ flow = "resume" /\ Len(processed_chunks) >= 1
    /\ Len(trail[1].first) > 3 * Len(chunks[1])
    /\ Len(processed_chunks[1]) < 2 * Len(chunks[1])
    /\ Len(processed_chunks[1]) > Len(chunks[1])

\* C39: last_check_length lies between 0 and the length of the accumulated
\* text and never decreases during a request; a repetition check (seen by
\* its stopping the request or by its moving last_check_length to the
\* length of the text) happens only when the text has grown by at least 500
\* characters since the check before, so never on a text under 500
\* characters; a line that says done ends the request as Completed even
\* when the text holds a repetition.
C39_RepetitionCheckBookkeeping ==
    /\ [](0 <= last_check_length /\ last_check_length <= Len(response_text))
    /\ [][(st = "Streaming") =>
            /\ last_check_length' >= last_check_length
            /\ (last_check_length' # last_check_length \/ st' = "RepetitionStopped") =>
                  /\ Len(response_text') - last_check_length >= 500
                  /\ Len(response_text') >= 500
            /\ (last_check_length' # last_check_length) =>
                  (last_check_length' = Len(response_text') /\ st' = "Streaming")
            /\ (lastEvent' = "done") =>
                  (st' = "Completed" /\ last_check_length' = last_check_length)]_vars

\* done arrived on a text that repeats itself, after an earlier check
C39_Witness ==
    /\ st = "Completed" /\ lastEvent = "done" /\ repSince # -1
    /\ last_check_length >= 500
    /\ Len(response_text) - last_check_length < 500

\* ------------------------------------------------------------------------
\* Specifications
\* ------------------------------------------------------------------------
InitChunker == ChunkInit /\ DedupIdle /\ NameIdle /\ RunIdle
SpecChunker == InitChunker /\ [][ChunkNext]_vars

InitDedup == DedupInit /\ ChunkIdle /\ NameIdle /\ RunIdle
SpecDedup == InitDedup /\ [][DedupNext]_vars

InitCall == CallInit /\ BatchIdle /\ ChunkIdle /\ DedupIdle /\ NameIdle
SpecCall == InitCall /\ [][CallNext]_vars

InitBatch == BatchInit /\ ChunkIdle /\ DedupIdle /\ NameIdle
SpecBatch == InitBatch /\ [][BatchNext]_vars

InitName == NameInit /\ ChunkIdle /\ DedupIdle /\ RunIdle
SpecName == InitName /\ [][NameNext]_vars

====
